---- MODULE Spec2Model ----
(***************************************************************************)
(* Reconciliation of NetBox manufacturers: the Ansible module              *)
(* plugins/modules/dcim_manufacturers.py (main) driving the handler class  *)
(* plugins/module_utils/dcim_manufacturers.py (DcimManufacturers), the     *)
(* handler main imports.  The remote NetBox (pynetbox) is the environment: *)
(* a store of manufacturer records and a fixed table of tags.              *)
(* plugins/module_utils/DcimManufacturers.py is a second copy of the class *)
(* that main does not import (its constructor takes no state); where the   *)
(* two copies differ the model follows the imported one.                   *)
(*                                                                         *)
(* Python values: a dict is a function whose DOMAIN is its key set, a str  *)
(* that the code transforms (name, slug) is a sequence of one-character    *)
(* strings, a list is a sequence, None is the record NoneVal.              *)
(***************************************************************************)
EXTENDS Integers, Sequences, FiniteSets, TLC

\* ------------------------------------------------------------------ bounds
\* Longest manufacturers list main is given.
MaxItems == 2
\* Longest tags list of one item.
MaxTags == 2

\* ------------------------------------------------------------ Python values
NoneVal == [none |-> TRUE]

EmptyDict == [k \in {} |-> TRUE]

\* dict.get(key, default)
Get(d, k, default) == IF k \in DOMAIN d THEN d[k] ELSE default

\* {k: d[k] for k in d if k in keys}
Restrict(d, keys) == [k \in (DOMAIN d) \cap keys |-> d[k]]

\* Python truthiness of a str, list or dict
Truthy(v) == DOMAIN v # {}

\* str.lower(), on the characters the model's names use
LowerChar(c) ==
    CASE c = "A" -> "a"
      [] c = "B" -> "b"
      [] c = "C" -> "c"
      [] c = "H" -> "h"
      [] c = "P" -> "p"
      [] OTHER -> c

Lower(s) == [i \in DOMAIN s |-> LowerChar(s[i])]

\* str.replace(old, new) for one-character old and new
Replace(s, old, new) == [i \in DOMAIN s |-> IF s[i] = old THEN new ELSE s[i]]

RECURSIVE SetToSortedSeq(_)
\* sorted(...) of a collection of distinct integers
SetToSortedSeq(S) ==
    IF S = {} THEN <<>>
    ELSE LET m == CHOOSE x \in S : \A y \in S : x <= y
         IN <<m>> \o SetToSortedSeq(S \ {m})

\* sorted(list) of integers, duplicates kept
Sorted(s) == SortSeq(s, LAMBDA a, b : a < b)

Range(s) == {s[i] : i \in DOMAIN s}

\* ------------------------------------------------------------- the universe
HP == <<"H", "P">>
AB == <<"A", " ", "B">>
Names == {HP, AB}

\* A name with an accented letter and punctuation.
Cafe == <<"C", "a", "f", "é", "!">>

\* The names an item may give.
ItemNames == Names \cup {Cafe}

hp == <<"h", "p">>
xx == <<"x">>
Slugs == {hp, xx}

Descriptions == {"", "Vendor"}

\* The tags NetBox holds (api.extras.tags); the handler only reads them.
TagTable ==
    { [id |-> 7, slug |-> "networking", name |-> "Networking"],
      [id |-> 8, slug |-> "trusted", name |-> "Trusted"] }

\* Tag names an item may give: one found by slug, one found only by name,
\* one NetBox does not hold.
TagNames == {"networking", "Trusted", "ghost"}

MANAGED_FIELDS == {"name", "slug", "description", "tags"}

\* str(e) / e.error of the RequestError pynetbox raises for a rejected request
RequestError == "RequestError"

\* ------------------------------------------------------- the remote (NetBox)
\* One remote call as the handler issues it.
Call(op, arg) == [op |-> op, arg |-> arg]

WriteOps == {"create", "update", "delete"}

ReadOps == {"tags.get", "manufacturers.get", "manufacturers.filter"}

\* api.extras.tags.get(slug=v) / api.extras.tags.get(name=v): the tag or None
TagGet(by, v) ==
    LET hits == {t \in TagTable : IF by = "slug" THEN t.slug = v ELSE t.name = v}
    IN IF hits = {} THEN NoneVal ELSE CHOOSE t \in hits : TRUE

\* NetBox keeps manufacturer slugs unique: a create or an update that would
\* give a second record the same slug is rejected.  accept = FALSE is any
\* other rejection of the request (permissions, validation, protected rows).
SlugTaken(st, slug, self_id) == \E r \in st : r.slug = slug /\ r.id # self_id

\* api.dcim.manufacturers.create(payload)
RemoteCreate(st, nid, body, accept) ==
    IF ~accept \/ SlugTaken(st, body["slug"], 0)
    THEN [ok |-> FALSE, store |-> st, nextId |-> nid, record |-> NoneVal]
    ELSE LET rec == [id |-> nid,
                     name |-> body["name"],
                     slug |-> body["slug"],
                     description |-> Get(body, "description", ""),
                     tags |-> Range(Get(body, "tags", <<>>))]
         IN [ok |-> TRUE, store |-> st \cup {rec}, nextId |-> nid + 1, record |-> rec]

\* The record m with the fields of body written over it.
Patched(m, body) ==
    [id |-> m.id,
     name |-> Get(body, "name", m.name),
     slug |-> Get(body, "slug", m.slug),
     description |-> Get(body, "description", m.description),
     tags |-> IF "tags" \in DOMAIN body THEN Range(body["tags"]) ELSE m.tags]

\* manufacturer.update(body)
RemoteUpdate(st, m, body, accept) ==
    IF ~accept \/ SlugTaken(st, Get(body, "slug", m.slug), m.id)
    THEN [ok |-> FALSE, store |-> st]
    ELSE [ok |-> TRUE, store |-> (st \ {r \in st : r.id = m.id}) \cup {Patched(m, body)}]

\* manufacturer.delete()
RemoteDelete(st, m, accept) ==
    IF ~accept
    THEN [ok |-> FALSE, store |-> st]
    ELSE [ok |-> TRUE, store |-> st \ {r \in st : r.id = m.id}]

\* --------------------------------------------------------------- the handler
RECURSIVE resolve_from(_, _, _, _)
\* The loop of _resolve_tags from index i on: resolved ids and calls so far.
resolve_from(tag_names, i, resolved, calls) ==
    IF i > Len(tag_names)
    THEN [raised |-> FALSE, exc |-> "", ids |-> resolved, calls |-> calls]
    ELSE LET tag == tag_names[i]
             by_slug == TagGet("slug", tag)
             c1 == Append(calls, Call("tags.get", <<"slug", tag>>))
             by_name == TagGet("name", tag)
             c2 == Append(c1, Call("tags.get", <<"name", tag>>))
         IN IF by_slug # NoneVal
            THEN resolve_from(tag_names, i + 1, Append(resolved, by_slug.id), c1)
            ELSE IF by_name # NoneVal
                 THEN resolve_from(tag_names, i + 1, Append(resolved, by_name.id), c2)
                 ELSE [raised |-> TRUE, exc |-> "TagNotFound", ids |-> <<>>, calls |-> c2]

_resolve_tags(tag_names) == resolve_from(tag_names, 1, <<>>, <<>>)

payload_slug_derived(d) == Replace(Lower(d["name"]), " ", "-")

\* data.get("slug") or data["name"].lower().replace(" ", "-")
payload_slug(d) ==
    IF Truthy(Get(d, "slug", <<>>))
    THEN d["slug"]
    ELSE Replace(Lower(d["name"]), " ", "-")

build_payload_supplied_only(d, stage) ==
    LET base == ("name" :> d["name"]) @@ ("slug" :> payload_slug(d))
        none == [raised |-> FALSE, exc |-> "", ids |-> <<>>, calls |-> <<>>]
        tg == IF stage \in {"merged", "override"} /\ "tags" \in DOMAIN d
              THEN _resolve_tags(d["tags"])
              ELSE none
        desc == IF stage \in {"merged", "override"} /\ "description" \in DOMAIN d
                THEN "description" :> d["description"]
                ELSE EmptyDict
        tags == IF stage \in {"merged", "override"} /\ "tags" \in DOMAIN d
                THEN "tags" :> tg.ids
                ELSE EmptyDict
    IN IF tg.raised
       THEN [raised |-> TRUE, exc |-> tg.exc, payload |-> NoneVal, calls |-> tg.calls]
       ELSE [raised |-> FALSE, exc |-> "", payload |-> base @@ desc @@ tags, calls |-> tg.calls]

build_payload(d, stage) ==
    LET base == ("name" :> d["name"]) @@ ("slug" :> payload_slug(d))
        none == [raised |-> FALSE, exc |-> "", ids |-> <<>>, calls |-> <<>>]
        tg == IF stage = "override" THEN _resolve_tags(Get(d, "tags", <<>>))
              ELSE IF stage = "merged" /\ "tags" \in DOMAIN d THEN _resolve_tags(d["tags"])
              ELSE none
        desc == IF stage = "override"
                THEN "description" :> Get(d, "description", "")
                ELSE IF stage = "merged" /\ "description" \in DOMAIN d
                     THEN "description" :> d["description"]
                     ELSE EmptyDict
        tags == IF stage = "override" \/ (stage = "merged" /\ "tags" \in DOMAIN d)
                THEN "tags" :> tg.ids
                ELSE EmptyDict
    IN IF tg.raised
       THEN [raised |-> TRUE, exc |-> tg.exc, payload |-> NoneVal, calls |-> tg.calls]
       ELSE [raised |-> FALSE, exc |-> "", payload |-> base @@ desc @@ tags, calls |-> tg.calls]

\* The fields perform_lookup searches by.
search_fields_of(d, stage) ==
    LET lookup == Get(d, "lookup", EmptyDict)
        direct == Restrict(lookup, MANAGED_FIELDS)
    IN IF ~Truthy(direct) /\ stage = "override"
       THEN Restrict(d, MANAGED_FIELDS)
       ELSE direct

\* What perform_lookup leaves behind when it searched nothing.
NoSearch == [raised |-> FALSE, exc |-> "", manufacturer |-> NoneVal, calls |-> <<>>]

\* self.manufacturer = api.dcim.manufacturers.get(slug=...); pynetbox's get()
\* raises ValueError when the filter matches more than one record.
lookup_by_slug(st, slug) ==
    LET hits == {r \in st : r.slug = slug}
    IN [raised |-> Cardinality(hits) > 1,
        exc |-> IF Cardinality(hits) > 1 THEN "ValueError" ELSE "",
        manufacturer |-> IF Cardinality(hits) = 1 THEN CHOOSE r \in hits : TRUE ELSE NoneVal,
        calls |-> <<Call("manufacturers.get", slug)>>]

lookup_by_name_first(st, name) ==
    LET hits == {r \in st : r.name = name}
    IN [raised |-> FALSE,
        exc |-> "",
        manufacturer |-> IF hits # {}
                         THEN CHOOSE r \in hits : \A q \in hits : r.id <= q.id
                         ELSE NoneVal,
        calls |-> <<Call("manufacturers.filter", name)>>]

\* results = list(api.dcim.manufacturers.filter(name=...)): one result is bound,
\* several raise, none leaves self.manufacturer as it was (None).
lookup_by_name(st, name) ==
    LET hits == {r \in st : r.name = name}
    IN [raised |-> Cardinality(hits) > 1,
        exc |-> IF Cardinality(hits) > 1 THEN "AmbiguousMatch" ELSE "",
        manufacturer |-> IF Cardinality(hits) = 1 THEN CHOOSE r \in hits : TRUE ELSE NoneVal,
        calls |-> <<Call("manufacturers.filter", name)>>]

search_description(sf, st) ==
    IF "slug" \in DOMAIN sf THEN lookup_by_slug(st, sf["slug"])
    ELSE IF "name" \in DOMAIN sf THEN lookup_by_name(st, sf["name"])
    ELSE LET hits == {r \in st : r.description = sf["description"]}
         IN [raised |-> FALSE,
             exc |-> "",
             manufacturer |-> IF Cardinality(hits) = 1 THEN CHOOSE r \in hits : TRUE
                              ELSE NoneVal,
             calls |-> <<Call("manufacturers.filter", sf["description"])>>]

\* The prioritised retrieval of perform_lookup over the chosen search fields.
search(sf, st) ==
    IF "slug" \in DOMAIN sf THEN lookup_by_slug(st, sf["slug"])
    ELSE IF "name" \in DOMAIN sf THEN lookup_by_name(st, sf["name"])
    ELSE NoSearch

perform_lookup_fallback(d, stage, st) ==
    LET direct == Restrict(Get(d, "lookup", EmptyDict), MANAGED_FIELDS)
    IN IF Truthy(direct) THEN search(direct, st)
       ELSE IF "slug" \in DOMAIN d THEN search("slug" :> d["slug"], st)
       ELSE search("name" :> d["name"], st)

perform_lookup(d, stage, st) ==
    LET lookup == Get(d, "lookup", EmptyDict)
        sf == search_fields_of(d, stage)
    IN IF stage = "merged" /\ ~Truthy(lookup) THEN NoSearch
       ELSE IF ~Truthy(sf) THEN NoSearch
       ELSE search(sf, st)

\* The current state is_different reads off the bound record.
current_of(m) ==
    [name |-> m.name,
     slug |-> m.slug,
     description |-> m.description,
     tags |-> SetToSortedSeq(m.tags)]

\* The desired state is_different builds from the payload.
desired_of(payload) ==
    [name |-> payload["name"],
     slug |-> payload["slug"],
     description |-> Get(payload, "description", ""),
     tags |-> Sorted(Get(payload, "tags", <<>>))]

\* The sentinel is_different returns when no record is bound (Python True).
CreateSentinel == [create |-> TRUE]

is_different_nosuppress(d, stage, payload, m) ==
    IF m = NoneVal THEN CreateSentinel
    ELSE LET current == current_of(m)
             desired == desired_of(payload)
         IN [f \in {g \in MANAGED_FIELDS : desired[g] # current[g]} |-> desired[f]]

is_different_wrongstage(d, stage, payload, m) ==
    IF m = NoneVal THEN CreateSentinel
    ELSE LET current == current_of(m)
             desired == desired_of(payload)
             differing == {f \in MANAGED_FIELDS : desired[f] # current[f]}
             implicit == IF stage = "override"
                         THEN {f \in {"description", "tags"} : f \notin DOMAIN d}
                         ELSE {}
         IN [f \in differing \ implicit |-> desired[f]]

is_different(d, stage, payload, m) ==
    IF m = NoneVal THEN CreateSentinel
    ELSE LET current == current_of(m)
             desired == desired_of(payload)
             differing == {f \in MANAGED_FIELDS : desired[f] # current[f]}
             implicit == IF stage = "merged"
                         THEN {f \in {"description", "tags"} : f \notin DOMAIN d}
                         ELSE {}
         IN [f \in differing \ implicit |-> desired[f]]

\* What one operation of the handler leaves behind: its return value (or the
\* exception that escaped it), the remote store and the calls it issued.
\* rejected: the remote answered the operation's write with a RequestError.
Returned(result, st, nid, calls) ==
    [raised |-> FALSE, exc |-> "", result |-> result, rejected |-> FALSE,
     store |-> st, nextId |-> nid, calls |-> calls]

Caught(result, st, nid, calls) ==
    [raised |-> FALSE, exc |-> "", result |-> result, rejected |-> TRUE,
     store |-> st, nextId |-> nid, calls |-> calls]

Escaped(exc, st, nid, calls) ==
    [raised |-> TRUE, exc |-> exc, result |-> NoneVal, rejected |-> TRUE,
     store |-> st, nextId |-> nid, calls |-> calls]

ensure_present_dryfirst(d, stage, check_mode, payload, m, st, nid, accept) ==
    IF check_mode
    THEN Returned([changed |-> TRUE,
                   msg |-> <<IF m = NoneVal THEN "would be created" ELSE "would be updated",
                             payload["name"]>>],
                  st, nid, <<>>)
    ELSE IF m = NoneVal
    THEN LET r == RemoteCreate(st, nid, payload, accept)
             c == <<Call("create", payload)>>
         IN IF r.ok
            THEN Returned([changed |-> TRUE, msg |-> <<"has been created", r.record.name>>],
                          r.store, r.nextId, c)
            ELSE Caught([failed |-> TRUE,
                         msg |-> <<"Failed to create", payload["name"], RequestError>>,
                         details |-> RequestError],
                        r.store, r.nextId, c)
    ELSE LET updates == is_different(d, stage, payload, m)
         IN IF Truthy(updates)
            THEN LET r == RemoteUpdate(st, m, updates, accept)
                     c == <<Call("update", updates)>>
                 IN IF r.ok
                    THEN Returned([changed |-> TRUE,
                                   msg |-> <<"has been updated", payload["name"]>>,
                                   updates |-> updates],
                                  r.store, nid, c)
                    ELSE Escaped(RequestError, r.store, nid, c)
            ELSE Returned([changed |-> FALSE, msg |-> <<"No changes required", m.name>>],
                          st, nid, <<>>)

ensure_present_twice(d, stage, check_mode, payload, m, st, nid, accept) ==
    IF m = NoneVal
    THEN IF check_mode
         THEN Returned([changed |-> TRUE, msg |-> <<"would be created", payload["name"]>>],
                       st, nid, <<>>)
         ELSE LET r == RemoteCreate(st, nid, payload, accept)
                  c == <<Call("create", payload)>>
              IN IF r.ok
                 THEN Returned([changed |-> TRUE, msg |-> <<"has been created", r.record.name>>],
                               r.store, r.nextId, c)
                 ELSE Caught([failed |-> TRUE,
                              msg |-> <<"Failed to create", payload["name"], RequestError>>,
                              details |-> RequestError],
                             r.store, r.nextId, c)
    ELSE LET updates == is_different(d, stage, payload, m)
         IN IF Truthy(updates)
            THEN IF check_mode
                 THEN Returned([changed |-> TRUE, msg |-> <<"would be updated", m.name>>,
                                updates |-> updates],
                               st, nid, <<>>)
                 ELSE LET r == RemoteUpdate(st, m, updates, accept)
                          c == <<Call("update", updates), Call("update", updates)>>
                      IN IF r.ok
                         THEN Returned([changed |-> TRUE,
                                        msg |-> <<"has been updated", payload["name"]>>,
                                        updates |-> updates],
                                       r.store, nid, c)
                         ELSE Escaped(RequestError, r.store, nid, c)
            ELSE Returned([changed |-> FALSE, msg |-> <<"No changes required", m.name>>],
                          st, nid, <<>>)

ensure_present(d, stage, check_mode, payload, m, st, nid, accept) ==
    IF m = NoneVal
    THEN IF check_mode
         THEN Returned([changed |-> TRUE, msg |-> <<"would be created", payload["name"]>>],
                       st, nid, <<>>)
         ELSE LET r == RemoteCreate(st, nid, payload, accept)
                  c == <<Call("create", payload)>>
              IN IF r.ok
                 THEN Returned([changed |-> TRUE, msg |-> <<"has been created", r.record.name>>],
                               r.store, r.nextId, c)
                 ELSE Caught([failed |-> TRUE,
                              msg |-> <<"Failed to create", payload["name"], RequestError>>,
                              details |-> RequestError],
                             r.store, r.nextId, c)
    ELSE LET updates == is_different(d, stage, payload, m)
         IN IF Truthy(updates)
            THEN IF check_mode
                 THEN Returned([changed |-> TRUE, msg |-> <<"would be updated", m.name>>,
                                updates |-> updates],
                               st, nid, <<>>)
                 ELSE LET r == RemoteUpdate(st, m, updates, accept)
                          c == <<Call("update", updates)>>
                      IN IF r.ok
                         THEN Returned([changed |-> TRUE,
                                        msg |-> <<"has been updated", payload["name"]>>,
                                        updates |-> updates],
                                       r.store, nid, c)
                         ELSE Escaped(RequestError, r.store, nid, c)
            ELSE Returned([changed |-> FALSE, msg |-> <<"No changes required", m.name>>],
                          st, nid, <<>>)

override_if_different(d, stage, check_mode, payload, m, st, nid, accept) ==
    IF m = NoneVal \/ Truthy(is_different(d, stage, payload, m))
    THEN IF m = NoneVal \/ check_mode
         THEN ensure_present(d, stage, check_mode, payload, m, st, nid, accept)
         ELSE LET r == RemoteUpdate(st, m, payload, accept)
                  c == <<Call("update", payload)>>
              IN IF r.ok
                 THEN Returned([changed |-> TRUE,
                                msg |-> <<"has been overridden", payload["name"]>>],
                               r.store, nid, c)
                 ELSE Escaped(RequestError, r.store, nid, c)
    ELSE Returned([changed |-> FALSE, msg |-> <<"No changes required", m.name>>],
                  st, nid, <<>>)

override(d, stage, check_mode, payload, m, st, nid, accept) ==
    IF m = NoneVal
    THEN ensure_present(d, stage, check_mode, payload, m, st, nid, accept)
    ELSE IF check_mode
         THEN Returned([changed |-> TRUE, msg |-> <<"would be overridden", payload["name"]>>],
                       st, nid, <<>>)
         ELSE LET r == RemoteUpdate(st, m, payload, accept)
                  c == <<Call("update", payload)>>
              IN IF r.ok
                 THEN Returned([changed |-> TRUE,
                                msg |-> <<"has been overridden", payload["name"]>>],
                               r.store, nid, c)
                 ELSE Escaped(RequestError, r.store, nid, c)

ensure_absent_ifdifferent(d, stage, check_mode, payload, m, st, nid, accept) ==
    IF m = NoneVal \/ ~Truthy(is_different(d, stage, payload, m))
    THEN Returned([changed |-> FALSE, msg |-> <<"already absent">>], st, nid, <<>>)
    ELSE IF check_mode
         THEN Returned([changed |-> TRUE, msg |-> <<"would be deleted", m.name>>], st, nid, <<>>)
         ELSE LET r == RemoteDelete(st, m, accept)
                  c == <<Call("delete", m.id)>>
              IN IF r.ok
                 THEN Returned([changed |-> TRUE, msg |-> <<"has been deleted", m.name>>],
                               r.store, nid, c)
                 ELSE Escaped(RequestError, r.store, nid, c)

ensure_absent_nocheck(d, stage, check_mode, payload, m, st, nid, accept) ==
    IF m = NoneVal
    THEN Returned([changed |-> FALSE, msg |-> <<"already absent">>], st, nid, <<>>)
    ELSE LET r == RemoteDelete(st, m, accept)
             c == <<Call("delete", m.id)>>
         IN IF r.ok
            THEN Returned([changed |-> TRUE, msg |-> <<"has been deleted", m.name>>],
                          r.store, nid, c)
            ELSE Escaped(RequestError, r.store, nid, c)

ensure_absent(d, stage, check_mode, payload, m, st, nid, accept) ==
    IF m = NoneVal
    THEN Returned([changed |-> FALSE, msg |-> <<"already absent">>], st, nid, <<>>)
    ELSE IF check_mode
         THEN Returned([changed |-> TRUE, msg |-> <<"would be deleted", m.name>>], st, nid, <<>>)
         ELSE LET r == RemoteDelete(st, m, accept)
                  c == <<Call("delete", m.id)>>
              IN IF r.ok
                 THEN Returned([changed |-> TRUE, msg |-> <<"has been deleted", m.name>>],
                               r.store, nid, c)
                 ELSE Escaped(RequestError, r.store, nid, c)

\* --------------------------------------- the handler of DcimManufacturers.py
\* The second copy of the handler (module_utils/DcimManufacturers.py).  It
\* builds its payload field by field in the constructor, keeps an `id` the item
\* gives, normalises slugs with slugify and leaves the lookup to its caller.

\* unicodedata.normalize("NFKD", c).encode("ascii", "ignore").decode("ascii")
\* of one character: an accented letter keeps its base letter, any other
\* character outside ASCII is dropped.
AsciiOf(c) ==
    CASE c = "é" -> <<"e">>
      [] c = "ø" -> <<>>
      [] OTHER -> <<c>>

RECURSIVE NFKDAscii(_)
NFKDAscii(s) == IF s = <<>> THEN <<>> ELSE AsciiOf(Head(s)) \o NFKDAscii(Tail(s))

\* \w of the characters names and slugs are made of
WordChars == {"A", "B", "C", "H", "P", "a", "b", "c", "e", "f", "h", "p", "x", "_"}

\* \s of the characters names and slugs are made of
Whitespace == {" "}

\* re.sub(r"[^\w\s-]", "", value)
DropOthers(s) == SelectSeq(s, LAMBDA c : c \in WordChars \cup Whitespace \cup {"-"})

RECURSIVE LStrip(_)
LStrip(s) == IF s # <<>> /\ Head(s) \in Whitespace THEN LStrip(Tail(s)) ELSE s

RECURSIVE RStrip(_)
RStrip(s) ==
    IF s # <<>> /\ s[Len(s)] \in Whitespace THEN RStrip(SubSeq(s, 1, Len(s) - 1)) ELSE s

\* str.strip()
Strip(s) == RStrip(LStrip(s))

RECURSIVE SkipRun(_)
\* s without the run of hyphens and whitespace it starts with
SkipRun(s) == IF s # <<>> /\ Head(s) \in Whitespace \cup {"-"} THEN SkipRun(Tail(s)) ELSE s

RECURSIVE Collapse(_)
\* re.sub(r"[-\s]+", "-", value)
Collapse(s) ==
    IF s = <<>> THEN <<>>
    ELSE IF Head(s) \in Whitespace \cup {"-"} THEN <<"-">> \o Collapse(SkipRun(s))
    ELSE <<Head(s)>> \o Collapse(Tail(s))

slugify(value) == Collapse(Lower(Strip(DropOthers(NFKDAscii(value)))))

\* self.payload[k] = v
Put(p, k, v) == (k :> v) @@ p

\* self.payload before the constructor's setters run
Netbox_payload == EmptyDict

set_name(p, d) == Put(p, "name", d["name"])

\* set_slug() as the constructor calls it (from_name = False)
set_slug(p, d) == IF "slug" \in DOMAIN d THEN Put(p, "slug", slugify(d["slug"])) ELSE p

set_description(p, d) ==
    IF "description" \in DOMAIN d THEN Put(p, "description", d["description"]) ELSE p

\* self.payload["tags"] = sorted(ids), given the ids _resolve_tags returned
set_tags(p, d, ids) == IF "tags" \in DOMAIN d THEN Put(p, "tags", Sorted(ids)) ELSE p

set_id(p, d) == IF "id" \in DOMAIN d THEN Put(p, "id", d["id"]) ELSE p

\* __init__: the payload the setters leave, or the exception of _resolve_tags
Dcim_init(d) ==
    LET tg == IF "tags" \in DOMAIN d THEN _resolve_tags(d["tags"])
              ELSE [raised |-> FALSE, exc |-> "", ids |-> <<>>, calls |-> <<>>]
        p1 == set_name(Netbox_payload, d)
        p2 == set_slug(p1, d)
        p3 == set_description(p2, d)
        p4 == set_tags(p3, d, tg.ids)
        p5 == set_id(p4, d)
    IN IF tg.raised
       THEN [raised |-> TRUE, exc |-> tg.exc, payload |-> p3, calls |-> tg.calls]
       ELSE [raised |-> FALSE, exc |-> "", payload |-> p5, calls |-> tg.calls]

\* perform_lookup: the lookup's managed fields, else the item's slug, else its
\* name; whatever the search raises is raised again as "Lookup failed".
Dcim_perform_lookup(d, st) ==
    LET lookup == Get(d, "lookup", EmptyDict)
        direct == Restrict(lookup, MANAGED_FIELDS)
        sf == IF Truthy(direct) THEN direct
              ELSE IF "slug" \in DOMAIN d THEN "slug" :> d["slug"]
              ELSE "name" :> d["name"]
    IN search(sf, st)

\* is_different: as in the other copy, but a payload without a slug is
\* compared as having the slug of the record.
Dcim_is_different(d, stage, payload, m) ==
    IF m = NoneVal THEN CreateSentinel
    ELSE LET current == current_of(m)
             desired == [name |-> payload["name"],
                         slug |-> Get(payload, "slug", m.slug),
                         description |-> Get(payload, "description", ""),
                         tags |-> Sorted(Get(payload, "tags", <<>>))]
             differing == {f \in MANAGED_FIELDS : desired[f] # current[f]}
             implicit == IF stage = "merged"
                         THEN {f \in {"description", "tags"} : f \notin DOMAIN d}
                         ELSE {}
         IN [f \in differing \ implicit |-> desired[f]]

\* ensure_present, lines 231-237: an explicit lookup by slug or name found nothing
LookupTargetMissing(d, m) ==
    /\ m = NoneVal
    /\ "lookup" \in DOMAIN d
    /\ {"slug", "name"} \cap DOMAIN d["lookup"] # {}

\* ensure_present, lines 240-241: the payload the create path sends
Dcim_create_payload(payload) ==
    IF "slug" \notin DOMAIN payload
    THEN Put(payload, "slug", slugify(payload["name"]))
    ELSE payload

Dcim_ensure_present(d, stage, check_mode, payload, m, st, nid, accept) ==
    IF LookupTargetMissing(d, m)
    THEN Returned([failed |-> TRUE,
                   msg |-> <<"No existing manufacturer matches lookup", d["lookup"]>>],
                  st, nid, <<>>)
    ELSE IF m = NoneVal
    THEN LET body == Dcim_create_payload(payload)
         IN IF check_mode
            THEN Returned([changed |-> TRUE, msg |-> <<"would be created", body["name"]>>],
                          st, nid, <<>>)
            ELSE LET r == RemoteCreate(st, nid, body, accept)
                     c == <<Call("create", body)>>
                 IN IF r.ok
                    THEN Returned([changed |-> TRUE,
                                   msg |-> <<"has been created", r.record.name>>],
                                  r.store, r.nextId, c)
                    ELSE Caught([failed |-> TRUE,
                                 msg |-> <<"Failed to create", body["name"], RequestError>>,
                                 details |-> RequestError],
                                r.store, r.nextId, c)
    ELSE LET updates == Dcim_is_different(d, stage, payload, m)
         IN IF Truthy(updates)
            THEN IF check_mode
                 THEN Returned([changed |-> TRUE, msg |-> <<"would be updated", m.name>>,
                                updates |-> updates],
                               st, nid, <<>>)
                 ELSE LET r == RemoteUpdate(st, m, updates, accept)
                          c == <<Call("update", updates)>>
                      IN IF r.ok
                         THEN Returned([changed |-> TRUE,
                                        msg |-> <<"has been updated", payload["name"]>>,
                                        updates |-> updates],
                                       r.store, nid, c)
                         ELSE Escaped(RequestError, r.store, nid, c)
            ELSE Returned([changed |-> FALSE, msg |-> <<"No changes required", m.name>>],
                          st, nid, <<>>)

Dcim_override(d, stage, check_mode, payload, m, st, nid, accept) ==
    IF m = NoneVal
    THEN Dcim_ensure_present(d, stage, check_mode, payload, m, st, nid, accept)
    ELSE IF check_mode
         THEN Returned([changed |-> TRUE, msg |-> <<"would be overridden", payload["name"]>>],
                       st, nid, <<>>)
         ELSE LET r == RemoteUpdate(st, m, payload, accept)
                  c == <<Call("update", payload)>>
              IN IF r.ok
                 THEN Returned([changed |-> TRUE,
                                msg |-> <<"has been overridden", payload["name"]>>],
                               r.store, nid, c)
                 ELSE Escaped(RequestError, r.store, nid, c)

Dcim_ensure_absent(d, stage, check_mode, payload, m, st, nid, accept) ==
    IF m = NoneVal
    THEN Returned([changed |-> FALSE, msg |-> <<"already absent">>], st, nid, <<>>)
    ELSE IF check_mode
         THEN Returned([changed |-> TRUE, msg |-> <<"would be deleted", m.name>>], st, nid, <<>>)
         ELSE LET r == RemoteDelete(st, m, accept)
                  c == <<Call("delete", m.id)>>
              IN IF r.ok
                 THEN Returned([changed |-> TRUE, msg |-> <<"has been deleted", m.name>>],
                               r.store, nid, c)
                 ELSE Escaped(RequestError, r.store, nid, c)

\* ------------------------------------------------------------ the inputs
\* The items of the manufacturers list: a name, and optionally a slug, a
\* description, a list of tag names and a lookup mapping.
TagLists == UNION {[1..n -> TagNames] : n \in 0..MaxTags}

Lookups ==
    {"name" :> n : n \in Names} \cup {"slug" :> s : s \in Slugs}
        \cup {"description" :> "Vendor"}

Inputs ==
    { ("name" :> n) @@ sl @@ de @@ tg @@ lk :
        n \in ItemNames,
        sl \in {EmptyDict} \cup {"slug" :> xx},
        de \in {EmptyDict} \cup {"description" :> x : x \in Descriptions},
        tg \in {EmptyDict} \cup {"tags" :> t : t \in TagLists},
        lk \in {EmptyDict} \cup {"lookup" :> l : l \in Lookups} }

\* Items that give a name and nothing else.
PlainInputs == {d \in Inputs : DOMAIN d = {"name"}}

\* The manufacturers NetBox may hold when the module starts.
Vendor1(desc, tags) ==
    [id |-> 1, name |-> HP, slug |-> hp, description |-> desc, tags |-> tags]

Vendor2 == [id |-> 2, name |-> HP, slug |-> xx, description |-> "", tags |-> {7}]

InitStores ==
    { {}, {Vendor1("", {})}, {Vendor1("Vendor", {7})}, {Vendor1("Vendor", {7, 8})},
      {Vendor1("Vendor", {7, 8}), Vendor2} }

\* ----------------------------------------------------------------- the state
VARIABLES
    store,          \* the manufacturers NetBox holds
    nextId,         \* the id NetBox gives the next record it creates
    state,          \* module.params['state']
    check_mode,     \* module.check_mode
    pc,             \* where main is: "loop", "dispatch", "collect", then an end
    count,          \* items of the list taken so far
    data,           \* the item the current handler was built for
    payload,        \* handler.payload
    manufacturer,   \* handler.manufacturer: the record bound by the lookup
    calls,          \* remote calls issued for the current item, in order
    result,         \* the dict the operation returned
    results,        \* main's results list
    changed,        \* main's changed flag
    exc,            \* the exception that escaped main, if any
    reported,       \* what exit_json / fail_json handed back to Ansible
    rejected,       \* the remote rejected the write issued for the current item
    store0,         \* the store when the current item was taken
    repeat          \* the current item is the previous item again

vars ==
    <<store, nextId, state, check_mode, pc, count, data, payload, manufacturer,
      calls, result, results, changed, exc, reported, rejected, store0, repeat>>

States == {"merged", "override", "absent"}

Init ==
    /\ store \in InitStores
    /\ nextId = 3
    /\ state \in States
    /\ check_mode \in BOOLEAN
    /\ pc = "loop"
    /\ count = 0
    /\ data = NoneVal
    /\ payload = NoneVal
    /\ manufacturer = NoneVal
    /\ calls = <<>>
    /\ result = NoneVal
    /\ results = <<>>
    /\ changed = FALSE
    /\ exc = ""
    /\ reported = NoneVal
    /\ rejected = FALSE
    /\ store0 = store
    /\ repeat = FALSE

\* main, line 149: the next item of the list and the handler built for it
\* (__init__: build_payload, then perform_lookup).
Construct(d) ==
    /\ pc = "loop"
    /\ count < MaxItems
    /\ LET bp == build_payload(d, state)
           lk == perform_lookup(d, state, store)
       IN /\ data' = d
          /\ count' = count + 1
          /\ repeat' = (d = data)
          /\ store0' = store
          /\ result' = NoneVal
          /\ rejected' = FALSE
          /\ IF bp.raised
             THEN /\ pc' = "raised"
                  /\ exc' = bp.exc
                  /\ payload' = NoneVal
                  /\ manufacturer' = NoneVal
                  /\ calls' = bp.calls
             ELSE IF lk.raised
             THEN /\ pc' = "raised"
                  /\ exc' = lk.exc
                  /\ payload' = bp.payload
                  /\ manufacturer' = NoneVal
                  /\ calls' = bp.calls \o lk.calls
             ELSE /\ pc' = "dispatch"
                  /\ exc' = exc
                  /\ payload' = bp.payload
                  /\ manufacturer' = lk.manufacturer
                  /\ calls' = bp.calls \o lk.calls
    /\ UNCHANGED <<store, nextId, state, check_mode, results, changed, reported>>

\* What main does with the outcome of the operation it dispatched to.
Dispatched(out) ==
    /\ store' = out.store
    /\ nextId' = out.nextId
    /\ calls' = calls \o out.calls
    /\ result' = out.result
    /\ exc' = out.exc
    /\ rejected' = out.rejected
    /\ pc' = IF out.raised THEN "raised" ELSE "collect"
    /\ UNCHANGED <<state, check_mode, count, data, payload, manufacturer,
                   results, changed, reported, store0, repeat>>

\* main, lines 151-152
EnsurePresent ==
    /\ pc = "dispatch"
    /\ state = "merged"
    /\ \E accept \in BOOLEAN :
          Dispatched(ensure_present(data, state, check_mode, payload, manufacturer,
                                    store, nextId, accept))

\* main, lines 153-154
Override ==
    /\ pc = "dispatch"
    /\ state = "override"
    /\ \E accept \in BOOLEAN :
          Dispatched(override(data, state, check_mode, payload, manufacturer,
                              store, nextId, accept))

\* main, lines 155-156
EnsureAbsent ==
    /\ pc = "dispatch"
    /\ state = "absent"
    /\ \E accept \in BOOLEAN :
          Dispatched(ensure_absent(data, state, check_mode, payload, manufacturer,
                                   store, nextId, accept))

FailJson_continue ==
    /\ pc = "collect"
    /\ Get(result, "failed", FALSE)
    /\ pc' = "loop"
    /\ reported' = result
    /\ UNCHANGED <<store, nextId, state, check_mode, count, data, payload, manufacturer,
                   calls, result, results, changed, exc, rejected, store0, repeat>>

\* main, lines 162-163: a failed outcome ends the module through fail_json
FailJson ==
    /\ pc = "collect"
    /\ Get(result, "failed", FALSE)
    /\ pc' = "failed"
    /\ reported' = result
    /\ UNCHANGED <<store, nextId, state, check_mode, count, data, payload, manufacturer,
                   calls, result, results, changed, exc, rejected, store0, repeat>>

Collect_prepend ==
    /\ pc = "collect"
    /\ ~Get(result, "failed", FALSE)
    /\ results' = <<result>> \o results
    /\ changed' = (changed \/ Get(result, "changed", FALSE))
    /\ pc' = "loop"
    /\ UNCHANGED <<store, nextId, state, check_mode, count, data, payload, manufacturer,
                   calls, result, exc, reported, rejected, store0, repeat>>

\* main, lines 165-167
Collect ==
    /\ pc = "collect"
    /\ ~Get(result, "failed", FALSE)
    /\ results' = Append(results, result)
    /\ changed' = (changed \/ Get(result, "changed", FALSE))
    /\ pc' = "loop"
    /\ UNCHANGED <<store, nextId, state, check_mode, count, data, payload, manufacturer,
                   calls, result, exc, reported, rejected, store0, repeat>>

\* main, line 169: the list is exhausted
ExitJson ==
    /\ pc = "loop"
    /\ pc' = "exited"
    /\ reported' = [changed |-> changed, results |-> results]
    /\ UNCHANGED <<store, nextId, state, check_mode, count, data, payload, manufacturer,
                   calls, result, results, changed, exc, rejected, store0, repeat>>

\* The items the list may continue with: its first item is any of Inputs; a
\* later one is the previous item again or an item that gives only a name.
ItemChoices == IF count = 0 THEN Inputs ELSE {data} \cup PlainInputs

Next ==
    \/ \E d \in ItemChoices : Construct(d)
    \/ EnsurePresent
    \/ Override
    \/ EnsureAbsent
    \/ FailJson
    \/ Collect
    \/ ExitJson

Spec == Init /\ [][Next]_vars

\* ------------------------------------- the handler of DcimManufacturers.py
\* One handler object of the second copy: its constructor, the lookup its
\* caller may run, and the operation that matches the requested state.
Padded == <<" ", "A", "-", " ", "B", " ">>

Dcim_Names == ItemNames \cup {Padded}

H_P == <<"H", " ", "P">>

Dcim_Inputs ==
    { ("name" :> n) @@ sl @@ de @@ tg @@ lk @@ id :
        n \in Dcim_Names,
        sl \in {EmptyDict} \cup {"slug" :> s : s \in {xx, H_P}},
        de \in {EmptyDict, "description" :> "Vendor"},
        tg \in {EmptyDict} \cup {"tags" :> t : t \in {u \in TagLists : Len(u) <= 1}},
        lk \in {EmptyDict, "lookup" :> ("name" :> HP), "lookup" :> ("slug" :> xx)},
        id \in {EmptyDict, "id" :> 1} }

\* handler = DcimManufacturers(api, data, check_mode)
Dcim_Construct(d) ==
    /\ pc = "loop"
    /\ LET built == Dcim_init(d)
       IN /\ data' = d
          /\ count' = count + 1
          /\ payload' = built.payload
          /\ calls' = built.calls
          /\ exc' = built.exc
          /\ pc' = IF built.raised THEN "raised" ELSE "built"
    /\ manufacturer' = NoneVal
    /\ UNCHANGED <<store, nextId, state, check_mode, result, results, changed,
                   reported, rejected, store0, repeat>>

\* handler.perform_lookup()
Dcim_PerformLookup ==
    /\ pc = "built"
    /\ LET lk == Dcim_perform_lookup(data, store)
       IN /\ manufacturer' = lk.manufacturer
          /\ calls' = calls \o lk.calls
          /\ exc' = lk.exc
          /\ pc' = IF lk.raised THEN "raised" ELSE "dispatch"
    /\ UNCHANGED <<store, nextId, state, check_mode, count, data, payload, result,
                   results, changed, reported, rejected, store0, repeat>>

\* What an operation of the handler leaves in the handler and in NetBox.
Dcim_Dispatched(out, p) ==
    /\ store' = out.store
    /\ nextId' = out.nextId
    /\ calls' = calls \o out.calls
    /\ result' = out.result
    /\ exc' = out.exc
    /\ rejected' = out.rejected
    /\ payload' = p
    /\ pc' = IF out.raised THEN "raised" ELSE "collect"
    /\ UNCHANGED <<state, check_mode, count, data, manufacturer,
                   results, changed, reported, store0, repeat>>

\* self.payload after ensure_present: the create path stores the derived slug
Dcim_payload_after(d, p, m) ==
    IF m = NoneVal /\ ~LookupTargetMissing(d, m) THEN Dcim_create_payload(p) ELSE p

\* handler.ensure_present()
Dcim_EnsurePresent ==
    /\ pc \in {"built", "dispatch"}
    /\ state = "merged"
    /\ \E accept \in BOOLEAN :
          Dcim_Dispatched(Dcim_ensure_present(data, state, check_mode, payload, manufacturer,
                                              store, nextId, accept),
                          Dcim_payload_after(data, payload, manufacturer))

\* handler.override()
Dcim_Override ==
    /\ pc \in {"built", "dispatch"}
    /\ state = "override"
    /\ \E accept \in BOOLEAN :
          Dcim_Dispatched(Dcim_override(data, state, check_mode, payload, manufacturer,
                                        store, nextId, accept),
                          Dcim_payload_after(data, payload, manufacturer))

\* handler.ensure_absent()
Dcim_EnsureAbsent ==
    /\ pc \in {"built", "dispatch"}
    /\ state = "absent"
    /\ \E accept \in BOOLEAN :
          Dcim_Dispatched(Dcim_ensure_absent(data, state, check_mode, payload, manufacturer,
                                             store, nextId, accept),
                          payload)

Dcim_Next ==
    \/ \E d \in Dcim_Inputs : Dcim_Construct(d)
    \/ Dcim_PerformLookup
    \/ Dcim_EnsurePresent
    \/ Dcim_Override
    \/ Dcim_EnsureAbsent

SpecDcim == Init /\ [][Dcim_Next]_vars

\* ------------------------------------------------------------ the claims
\* The calls of the current item that write to the remote.
WriteCalls == {i \in DOMAIN calls : calls[i].op \in WriteOps}

NoWrites == WriteCalls = {}

Issued(op) == \E i \in DOMAIN calls : calls[i].op = op

IssuedWith(op, arg) == \E i \in DOMAIN calls : calls[i].op = op /\ calls[i].arg = arg

\* An item has been taken and its handler built without an exception.
Built == count > 0 /\ payload # NoneVal

\* The operation main dispatched to has returned an outcome.
Outcome == pc = "collect"

\* The operation main dispatched to has run, to an outcome or to an exception.
Operated == pc = "collect" \/ (pc = "raised" /\ exc = RequestError)

\* Payload field f equals the field of the bound record.
FieldEqual(f) ==
    IF f = "tags" THEN Sorted(payload[f]) = SetToSortedSeq(manufacturer.tags)
    ELSE payload[f] = manufacturer[f]

\* A record is bound and every managed field of the payload equals it.
PayloadEqualsRecord ==
    /\ Built
    /\ manufacturer # NoneVal
    /\ \A f \in DOMAIN payload : FieldEqual(f)

\* C1 (as stated): running merged twice in a row with identical input and no
\* other change to the store, the second run is not failed and reports
\* changed = false.
C1_MergedIdempotent ==
    (Outcome /\ repeat /\ state = "merged" /\ ~check_mode)
        => /\ ~Get(result, "failed", FALSE)
           /\ Get(result, "changed", FALSE) = FALSE

\* The reads a run of the current item performs: every tag name given is
\* looked up by slug, and the record is looked up by the slug or the name of
\* the search fields.
TagReadsDone ==
    (state \in {"merged", "override"} /\ "tags" \in DOMAIN data)
        => \A i \in DOMAIN data["tags"] : IssuedWith("tags.get", <<"slug", data["tags"][i]>>)

LookupReadsDone ==
    LET lookup == Get(data, "lookup", EmptyDict)
    IN /\ "slug" \in DOMAIN lookup => IssuedWith("manufacturers.get", lookup["slug"])
       /\ ("name" \in DOMAIN lookup /\ "slug" \notin DOMAIN lookup)
              => IssuedWith("manufacturers.filter", lookup["name"])
       /\ (state = "override" /\ lookup = EmptyDict)
              => IF "slug" \in DOMAIN data
                 THEN IssuedWith("manufacturers.get", data["slug"])
                 ELSE IssuedWith("manufacturers.filter", data["name"])

\* C2: in check mode no create, update or delete is ever issued and the store
\* stays as it was, while an item that reaches its outcome has had its tags
\* and its record looked up first.
C2_DryRunReadsButNeverWrites ==
    check_mode
        => /\ NoWrites
           /\ store = store0
           /\ ~rejected
           /\ Outcome => (TagReadsDone /\ LookupReadsDone)

C2_Witness ==
    /\ check_mode
    /\ Outcome
    /\ manufacturer # NoneVal
    /\ Get(result, "changed", FALSE)
    /\ Issued("tags.get")
    /\ Issued("manufacturers.get") \/ Issued("manufacturers.filter")

C4_OverrideAlwaysWrites ==
    (state = "override" /\ ~check_mode /\ manufacturer # NoneVal /\ Operated)
        => /\ Cardinality(WriteCalls) = 1
           /\ IssuedWith("update", payload)
           /\ DOMAIN payload = MANAGED_FIELDS
           /\ Outcome => (Get(result, "changed", FALSE) /\ ~Get(result, "failed", FALSE))

C4_Witness ==
    /\ state = "override"
    /\ ~check_mode
    /\ PayloadEqualsRecord
    /\ Outcome
    /\ IssuedWith("update", payload)
    /\ result.changed

\* The record bound to the current item, as the store holds it now.
BoundNow == {r \in store : r.id = manufacturer.id}

\* C5: in merged with a bound record, a field among tags and description that
\* the input omits is never in the diff, is in no update body, and keeps the
\* value the record had.
C5_MergeSuppression ==
    (state = "merged" /\ Built /\ manufacturer # NoneVal)
        => \A f \in {"tags", "description"} \ DOMAIN data :
              /\ f \notin DOMAIN is_different(data, state, payload, manufacturer)
              /\ \A i \in WriteCalls : f \notin DOMAIN calls[i].arg
              /\ \A r \in BoundNow : r[f] = manufacturer[f]

C5_Witness ==
    /\ state = "merged"
    /\ Outcome
    /\ manufacturer # NoneVal
    /\ manufacturer.tags = {7, 8}
    /\ manufacturer.description = "Vendor"
    /\ DOMAIN data \cap {"tags", "description"} = {}
    /\ Issued("update")
    /\ \E r \in BoundNow : r # manufacturer /\ r.tags = {7, 8} /\ r.description = "Vendor"

\* The current item is looked up by name: its lookup names name and not slug,
\* or it has no lookup and override falls back on an item without a slug.
LookedUpByName ==
    LET lookup == Get(data, "lookup", EmptyDict)
    IN IF lookup # EmptyDict
       THEN "name" \in DOMAIN lookup /\ "slug" \notin DOMAIN lookup
       ELSE state = "override" /\ "slug" \notin DOMAIN data

LookupName ==
    LET lookup == Get(data, "lookup", EmptyDict)
    IN IF lookup # EmptyDict THEN lookup["name"] ELSE data["name"]

LookupNamesTarget ==
    "lookup" \in DOMAIN data /\ DOMAIN data["lookup"] \cap {"slug", "name"} # {}

\* C7 (as stated): in merged, when the lookup names slug or name and no record
\* is found, the outcome is failed and no create is issued.
C7_LookupTargetMissing ==
    (state = "merged" /\ Outcome /\ LookupNamesTarget /\ manufacturer = NoneVal)
        => /\ Get(result, "failed", FALSE)
           /\ ~Issued("create")

C9_WriteFailuresInBand ==
    rejected
        => /\ pc # "raised"
           /\ Get(result, "failed", FALSE)
           /\ Get(result, "details", "") = RequestError

\* C10 (as stated): when an item's outcome is failed, the module reports
\* failure and the outcomes of the items before it are part of what it reports.
C10_FailurePreservesOutcomes ==
    (pc = "failed" /\ results # <<>>)
        => /\ Get(reported, "failed", FALSE)
           /\ "results" \in DOMAIN reported
           /\ Get(reported, "results", <<>>) = results

\* The operation main dispatches to for the current item, run from the current
\* state with the given check mode and remote answer.
Operation(cm, accept) ==
    IF state = "merged"
    THEN ensure_present(data, state, cm, payload, manufacturer, store, nextId, accept)
    ELSE IF state = "override"
    THEN override(data, state, cm, payload, manufacturer, store, nextId, accept)
    ELSE ensure_absent(data, state, cm, payload, manufacturer, store, nextId, accept)

\* The classification of an outcome dict: failed, changed or unchanged.
VerdictOf(r) ==
    IF Get(r, "failed", FALSE) THEN "failed"
    ELSE IF Get(r, "changed", FALSE) THEN "changed"
    ELSE "unchanged"

\* The same run as `out`, classified as the dry run's outcome is.
SameClassification(out) ==
    /\ ~out.raised
    /\ VerdictOf(out.result) = VerdictOf(result)
    /\ DOMAIN Get(out.result, "updates", EmptyDict) = DOMAIN Get(result, "updates", EmptyDict)

\* C11 (as stated): the outcome of a dry run has the verdict and the Delta
\* field names of the real run from the same state, whatever the remote
\* answers to the real run's write.
C11_DryRunParity ==
    (Outcome /\ check_mode)
        => \A accept \in BOOLEAN : SameClassification(Operation(FALSE, accept))

\* C11 (amended): the outcome of a dry run has the verdict and the Delta field
\* names of the real run from the same state whenever the remote does not
\* reject the real run's write.
C11_DryRunParityWhenAccepted ==
    (Outcome /\ check_mode)
        => \A accept \in BOOLEAN :
              LET real == Operation(FALSE, accept)
              IN ~real.rejected => SameClassification(real)

C11_Witness ==
    /\ Outcome
    /\ check_mode
    /\ Cardinality(DOMAIN Get(result, "updates", EmptyDict)) >= 2
    /\ LET real == Operation(FALSE, TRUE)
       IN ~real.rejected /\ real.store # store

\* C12: every create and update body holds managed fields only; an id the
\* item gives is in none of them.
C12_OnlyManagedFieldsWritten ==
    \A i \in DOMAIN calls :
        calls[i].op \in {"create", "update"} => DOMAIN calls[i].arg \subseteq MANAGED_FIELDS

\* C13: in merged, for an item that gives no slug and a record bound by
\* lookup, the reported Delta has no slug and the record keeps its slug.
C13_NoImplicitSlugOnMerge ==
    (Outcome /\ state = "merged" /\ manufacturer # NoneVal /\ "slug" \notin DOMAIN data)
        => /\ "slug" \notin DOMAIN Get(result, "updates", EmptyDict)
           /\ \A r \in BoundNow : r.slug = manufacturer.slug

\* C14: in absent outside check mode, an item that gives only a name, the name
\* of exactly one manufacturer of the store, gets that manufacturer deleted:
\* changed = true is reported and no manufacturer of that name is left.
C14_AbsentByName ==
    ( /\ Outcome
      /\ state = "absent"
      /\ ~check_mode
      /\ DOMAIN data = {"name"}
      /\ Cardinality({r \in store0 : r.name = data["name"]}) = 1 )
        => /\ Get(result, "changed", FALSE)
           /\ ~\E r \in store : r.name = data["name"]

\* C15 (as stated): in absent, an item with no record bound ends unchanged
\* with no write issued; an item with a record bound has exactly one write
\* issued, the delete of that record, and its outcome is changed = true.
C15_AbsentTransition ==
    (state = "absent" /\ Built /\ Outcome)
        => IF manufacturer = NoneVal
           THEN NoWrites /\ Get(result, "changed", FALSE) = FALSE
           ELSE /\ Cardinality(WriteCalls) = 1
                /\ IssuedWith("delete", manufacturer.id)
                /\ Get(result, "changed", FALSE)

\* C15 (amended): in absent, an item with no record bound ends unchanged with
\* no write issued; an item with a record bound, outside check mode, has
\* exactly one write issued, the delete of that record, and every outcome of an
\* item with a record bound is changed = true, whether or not the payload
\* differs from the record.
C15_AbsentTransitionRealRun ==
    (state = "absent" /\ Built /\ Operated)
        => IF manufacturer = NoneVal
           THEN /\ NoWrites
                /\ store = store0
                /\ Outcome /\ Get(result, "changed", FALSE) = FALSE
           ELSE /\ ~check_mode
                    => /\ Cardinality(WriteCalls) = 1
                       /\ IssuedWith("delete", manufacturer.id)
                       /\ Outcome => store = store0 \ {manufacturer}
                /\ Outcome => (Get(result, "changed", FALSE) /\ ~Get(result, "failed", FALSE))

C15_Witness ==
    /\ state = "absent"
    /\ ~check_mode
    /\ Outcome
    /\ manufacturer # NoneVal
    /\ ~Truthy(is_different(data, state, payload, manufacturer))
    /\ IssuedWith("delete", manufacturer.id)
    /\ manufacturer \in store0 \ store
    /\ result.changed

\* The first tag name of the item that NetBox holds neither by slug nor by name.
FirstMissingTag ==
    LET tags == data["tags"]
        missing == {i \in DOMAIN tags :
                        TagGet("slug", tags[i]) = NoneVal /\ TagGet("name", tags[i]) = NoneVal}
    IN tags[CHOOSE i \in missing : \A j \in missing : i <= j]

\* The item's tags are resolved (merged, override) and one of them is missing.
TagMissing ==
    /\ count > 0
    /\ data # NoneVal
    /\ state \in {"merged", "override"}
    /\ "tags" \in DOMAIN data
    /\ \E i \in DOMAIN data["tags"] :
          TagGet("slug", data["tags"][i]) = NoneVal /\ TagGet("name", data["tags"][i]) = NoneVal

\* Every call so far is a tag read, a read by name follows the failed read by
\* slug of the same tag, and the last read is that of the first missing tag.
TagReadsAbortAtFirstMissing ==
    /\ calls # <<>>
    /\ \A i \in DOMAIN calls :
          /\ calls[i].op = "tags.get"
          /\ calls[i].arg[1] = "name"
                => /\ i > 1
                   /\ calls[i - 1].arg = <<"slug", calls[i].arg[2]>>
                   /\ TagGet("slug", calls[i].arg[2]) = NoneVal
    /\ calls[Len(calls)].arg = <<"name", FirstMissingTag>>

\* C16: when a tag of the item is missing, resolution stops at the first
\* missing tag with TagNotFound after reads by slug then by name, nothing is
\* written, and the item ends as a failed outcome.
C16_TagResolutionAllOrNothing ==
    TagMissing
        => /\ TagReadsAbortAtFirstMissing
           /\ NoWrites
           /\ store = store0
           /\ exc = "TagNotFound"
           /\ pc \in {"collect", "failed"}
           /\ Get(result, "failed", FALSE)

\* C17: the results list grows only by the outcome of the current item, put
\* at the end as the outcome of item number count; an item is taken only when
\* every earlier item has its outcome in the list; and the module that exits
\* reports one outcome per item and changed = true exactly when some outcome
\* is changed.
C17_BatchOrderAndAggregate ==
    /\ [](pc = "exited"
            => /\ reported.results = results
               /\ Len(reported.results) = count
               /\ reported.changed
                    <=> \E i \in DOMAIN reported.results :
                            Get(reported.results[i], "changed", FALSE))
    /\ [][ /\ results' # results
                => /\ pc = "collect"
                   /\ results' = Append(results, result)
                   /\ Len(results') = count
           /\ count' # count => (count' = count + 1 /\ Len(results) = count) ]_vars

C17_Witness ==
    /\ pc = "exited"
    /\ count = 2
    /\ reported.changed
    /\ Get(reported.results[1], "changed", FALSE)
    /\ ~Get(reported.results[2], "changed", FALSE)

\* The create call the current item issued.
CreateBodies == {calls[i].arg : i \in {j \in DOMAIN calls : calls[j].op = "create"}}

\* The identifiers NetBox holds for the tag names of the item.
ResolvedIds ==
    {t.id : t \in {u \in TagTable :
                     \E i \in DOMAIN data["tags"] :
                        u.slug = data["tags"][i] \/ u.name = data["tags"][i]}}

\* The create path of merged: one write, a create whose body has the name of
\* the item, the ids of its tags when it gives tags, and its slug, or the slug
\* derived from the name when it gives none.
MergedCreateIssued ==
    /\ Cardinality(WriteCalls) = 1
    /\ \E i \in WriteCalls :
          /\ calls[i].op = "create"
          /\ calls[i].arg["name"] = data["name"]
          /\ "tags" \in DOMAIN data
                => "tags" \in DOMAIN calls[i].arg /\ Range(calls[i].arg["tags"]) = ResolvedIds
          /\ "slug" \in DOMAIN data => calls[i].arg["slug"] = data["slug"]
          /\ "slug" \notin DOMAIN data
                => calls[i].arg["slug"] = Replace(Lower(data["name"]), " ", "-")

\* C18 (as stated): in merged outside check mode, an item built without an
\* exception and with no record bound has the create of MergedCreateIssued
\* issued, and its outcome is changed = true.
C18_MergedCreatePath ==
    (state = "merged" /\ ~check_mode /\ Built /\ manufacturer = NoneVal /\ Operated)
        => /\ MergedCreateIssued
           /\ Outcome
           /\ Get(result, "changed", FALSE)

\* C18 (amended): in merged outside check mode, an item built without an
\* exception and with no record bound has the create of MergedCreateIssued
\* issued and ends in an outcome: changed = true with the record in the store
\* when NetBox accepts the create, failed when it rejects it.
C18_MergedCreatePathWhenAccepted ==
    (state = "merged" /\ ~check_mode /\ Built /\ manufacturer = NoneVal /\ Operated)
        => /\ MergedCreateIssued
           /\ Outcome
           /\ IF rejected
              THEN Get(result, "failed", FALSE) /\ store = store0
              ELSE /\ Get(result, "changed", FALSE)
                   /\ \E r \in store \ store0 :
                         /\ r.name = data["name"]
                         /\ "tags" \in DOMAIN data => r.tags = ResolvedIds

C18_Witness ==
    /\ state = "merged"
    /\ ~check_mode
    /\ Outcome
    /\ manufacturer = NoneVal
    /\ "tags" \in DOMAIN data
    /\ "slug" \notin DOMAIN data
    /\ Cardinality(ResolvedIds) = 2
    /\ IssuedWith("create", payload)
    /\ Get(result, "changed", FALSE)

\* C19: the slug build_payload derives from the name of an item that gives no
\* slug is slugify of that name; slugify of "Café!" is "cafe".
C19_SlugNormalization ==
    /\ slugify(Cafe) = <<"c", "a", "f", "e">>
    /\ (Built /\ "slug" \notin DOMAIN data) => payload["slug"] = slugify(data["name"])

\* C20: in override the payload holds description, the value the item gives
\* or the empty string, and tags, the ids of the tags the item gives or none;
\* after an override outside check mode that returned its outcome, the bound
\* record has the description and the tags of the payload.
C20_OverrideFullReplace ==
    (state = "override" /\ Built)
        => /\ {"description", "tags"} \subseteq DOMAIN payload
           /\ payload["description"] = Get(data, "description", "")
           /\ Range(payload["tags"]) = (IF "tags" \in DOMAIN data THEN ResolvedIds ELSE {})
           /\ (Outcome /\ ~check_mode /\ manufacturer # NoneVal)
                 => /\ BoundNow # {}
                    /\ \A r \in BoundNow :
                          /\ r.description = payload["description"]
                          /\ r.tags = Range(payload["tags"])

C20_Witness ==
    /\ state = "override"
    /\ ~check_mode
    /\ Outcome
    /\ manufacturer # NoneVal
    /\ manufacturer.description = "Vendor"
    /\ manufacturer.tags = {7, 8}
    /\ DOMAIN data \cap {"description", "tags"} = {}
    /\ \E r \in BoundNow : r.description = "" /\ r.tags = {}

\* Payload field f differs from the bound record, tags compared as sets.
DiffersAsSet(f) ==
    IF f = "tags" THEN Range(payload[f]) # manufacturer.tags
    ELSE payload[f] # manufacturer[f]

\* The managed fields of the payload that differ from the bound record.
DeltaFields == {f \in DOMAIN payload \cap MANAGED_FIELDS : DiffersAsSet(f)}

\* body sends exactly the fields of DeltaFields, each with the payload's value.
IsDelta(body) ==
    /\ DOMAIN body = DeltaFields
    /\ \A f \in DOMAIN body :
          IF f = "tags" THEN Range(body[f]) = Range(payload[f]) ELSE body[f] = payload[f]

\* C21: in merged outside check mode, with a record bound and some field of
\* the payload differing from it, the one write issued is an update whose body
\* is exactly the differing fields with their desired values, and the outcome
\* is changed = true.
C21_MergedWritesDeltaOnly ==
    ( /\ state = "merged"
      /\ ~check_mode
      /\ Built
      /\ manufacturer # NoneVal
      /\ DeltaFields # {}
      /\ Operated )
        => /\ Cardinality(WriteCalls) = 1
           /\ \A i \in WriteCalls : calls[i].op = "update" /\ IsDelta(calls[i].arg)
           /\ Outcome => (Get(result, "changed", FALSE) /\ ~Get(result, "failed", FALSE))

\* The item gives a lookup that names neither slug nor name.
LookupWithoutKey ==
    /\ count > 0
    /\ data # NoneVal
    /\ "lookup" \in DOMAIN data
    /\ DOMAIN data["lookup"] # {}
    /\ DOMAIN data["lookup"] \cap {"slug", "name"} = {}

C23_AtMostOneWritePerItem ==
    /\ Cardinality(WriteCalls) <= 1
    /\ \A i \in WriteCalls :
          /\ i = Len(calls)
          /\ \A j \in DOMAIN calls : calls[j].op \in ReadOps => j < i
          /\ TagReadsDone
          /\ LookupReadsDone

C23_Witness ==
    /\ Outcome
    /\ ~check_mode
    /\ Issued("tags.get")
    /\ Issued("manufacturers.filter")
    /\ Cardinality(WriteCalls) = 1
    /\ calls[Len(calls)].op = "update"
    /\ store # store0

\* C24: a failed outcome is followed by fail_json alone, which issues no call,
\* takes no further item and leaves the store as it is; after fail_json no
\* step is taken; and the store then is the store the failed item started
\* from, the writes of the earlier items included.
C24_BatchStopsAtFirstFailure ==
    /\ [](pc = "failed" => (Get(result, "failed", FALSE) /\ store = store0))
    /\ [][ /\ (pc = "collect" /\ Get(result, "failed", FALSE))
                => /\ pc' = "failed"
                   /\ calls' = calls /\ count' = count
                   /\ store' = store /\ nextId' = nextId
           /\ pc # "failed" ]_vars

C24_Witness ==
    /\ pc = "failed"
    /\ count = 2
    /\ Len(results) = 1
    /\ Get(results[1], "changed", FALSE)
    /\ \E r \in store : r.id = 3 /\ r.name = data["name"]

====
